---- MODULE Spec2Model ----
(***************************************************************************)
(* State-machine model of hermit/qrcode/reader.py: the Specter-Desktop     *)
(* fragment parsers, read_single_qr and the scan loop of read_qr_code.     *)
(* A decoded QR text is a sequence of one-character strings.               *)
(***************************************************************************)
EXTENDS Naturals, Integers, Sequences, FiniteSets, TLC

VARIABLES
    pc,              \* "init" | "loop" | "returned" | "raised"
    qrtype,          \* argument of read_qr_code
    qrs_array,       \* reader.py:117 list of slots, None or a text
    result_payload,  \* the value read_qr_code returned
    error,           \* exception that left read_qr_code, "none" if none
    exit_path,       \* which exit was taken
    opened,          \* number of cv2.VideoCapture(0) calls
    released,        \* number of camera.release() calls
    effects,         \* camera / window / decoder calls made so far
    barcodes,        \* pyzbar.decode(frame) of the last iteration
    verdict,         \* what parse_wshsortedmulti would do with that frame
    validated,       \* arguments parse_wshsortedmulti was called with, last iteration
    printed,         \* print_formatted_text messages of the last step
    idx_seen,        \* history: x_int of every fragment that reached line 164
    stream,          \* 0: any frame; n >= 2: frames of one n-part capture
    parser_call      \* last direct call of a parser: kind, argument, result

vars ==
    <<pc, qrtype, qrs_array, result_payload, error, exit_path, opened,
      released, effects, barcodes, verdict, validated, printed, idx_seen,
      stream, parser_call>>

----------------------------------------------------------------------------
(* Bounds *)

MaxParts ==
    3

MaxBarcodes ==
    2

\* largest part number written in a header given to the parsers
MaxNum ==
    10

----------------------------------------------------------------------------
(* Python values *)

None ==
    <<"None">>

ESC ==
    27

KINDS ==
    <<"accountmap", "psbt">>

DIGITS ==
    <<"0", "1", "2", "3", "4", "5", "6", "7", "8", "9">>

IsDigit(c) ==
    \E i \in 1..Len(DIGITS) : DIGITS[i] = c

DigitVal(c) ==
    (CHOOSE i \in 1..Len(DIGITS) : DIGITS[i] = c) - 1

\* str.strip(): drop leading and trailing whitespace
RECURSIVE LStrip(_)
LStrip(s) ==
    IF s # <<>> /\ Head(s) = " " THEN LStrip(Tail(s)) ELSE s

RECURSIVE RStrip(_)
RStrip(s) ==
    IF s # <<>> /\ s[Len(s)] = " " THEN RStrip(SubSeq(s, 1, Len(s) - 1)) ELSE s

Strip(s) ==
    RStrip(LStrip(s))

\* str.split(" "): every single space separates, empty tokens are kept
RECURSIVE SplitFrom(_, _, _)
SplitFrom(s, cur, acc) ==
    IF s = <<>> THEN Append(acc, cur)
    ELSE IF Head(s) = " " THEN SplitFrom(Tail(s), <<>>, Append(acc, cur))
    ELSE SplitFrom(Tail(s), Append(cur, Head(s)), acc)

Split(s) ==
    SplitFrom(s, <<>>, <<>>)

\* mutant: the tokens are joined without the separator
RECURSIVE Join_no_sep(_, _)
Join_no_sep(sep, parts) ==
    IF parts = <<>> THEN <<>> ELSE parts[1] \o Join_no_sep(sep, Tail(parts))

\* sep.join(parts)
RECURSIVE Join(_, _)
Join(sep, parts) ==
    IF parts = <<>> THEN <<>>
    ELSE IF Len(parts) = 1 THEN parts[1]
    ELSE parts[1] \o sep \o Join(sep, Tail(parts))

\* longest run of digits at the start of s: the greedy group ([0-9]*)
RECURSIVE DigitRun(_)
DigitRun(s) ==
    IF s # <<>> /\ IsDigit(Head(s)) THEN <<Head(s)>> \o DigitRun(Tail(s)) ELSE <<>>

\* re.match("p([0-9]*)of([0-9]*)", xofy): anchored at the start only
ReMatchXofY(xofy) ==
    IF xofy = <<>> \/ Head(xofy) # "p" THEN [matched |-> FALSE, g1 |-> <<>>, g2 |-> <<>>]
    ELSE LET a == DigitRun(Tail(xofy))
             r == SubSeq(xofy, 2 + Len(a), Len(xofy))
         IN IF Len(r) >= 2 /\ r[1] = "o" /\ r[2] = "f"
            THEN [matched |-> TRUE, g1 |-> a, g2 |-> DigitRun(SubSeq(r, 3, Len(r)))]
            ELSE [matched |-> FALSE, g1 |-> <<>>, g2 |-> <<>>]

\* int(s) for a string of decimal digits; -1 stands for ValueError (int(""))
RECURSIVE IntAcc(_, _)
IntAcc(s, acc) ==
    IF s = <<>> THEN acc ELSE IntAcc(Tail(s), acc * 10 + DigitVal(Head(s)))

\* mutant: an empty digit group counts as 0
PyInt_empty_zero(s) ==
    IntAcc(s, 0)

PyInt(s) ==
    IF s = <<>> THEN -1 ELSE IntAcc(s, 0)

----------------------------------------------------------------------------
(* Parsers.  A result is [tag, has_xy, x_int, y_int, payload, validated]:  *)
(* tag "ok" with the returned dict, or tag "ValueError".                   *)

Raise(tag, val) ==
    [tag |-> tag, has_xy |-> FALSE, x_int |-> 0, y_int |-> 0, payload |-> <<>>,
     validated |-> val]

Dict(x, y, payload, val) ==
    [tag |-> "ok", has_xy |-> TRUE, x_int |-> x, y_int |-> y, payload |-> payload,
     validated |-> val]

_parse_specter_desktop_psbt(qrcode_data) ==
    LET parts == Split(qrcode_data)
    IN IF Len(parts) = 1 THEN Dict(1, 1, qrcode_data, <<>>)
       ELSE IF Len(parts) = 2
       THEN LET xofy_re == ReMatchXofY(parts[1])
            IN IF ~xofy_re.matched THEN Raise("ValueError", <<>>)
               ELSE IF PyInt(xofy_re.g1) < 0 \/ PyInt(xofy_re.g2) < 0
               THEN Raise("ValueError", <<>>)
               ELSE Dict(PyInt(xofy_re.g1), PyInt(xofy_re.g2), parts[2], <<>>)
       ELSE Raise("ValueError", <<>>)

\* v is the behaviour of buidl's parse_wshsortedmulti on qrcode_data
_parse_specter_desktop_accountmap(qrcode_data, v) ==
    LET parts == Split(qrcode_data)
        xofy_re == ReMatchXofY(parts[1])
    IN IF ~xofy_re.matched
       THEN IF v = "ok"
            THEN [tag |-> "ok", has_xy |-> FALSE, x_int |-> 0, y_int |-> 0,
                  payload |-> qrcode_data, validated |-> <<qrcode_data>>]
            ELSE Raise(v, <<qrcode_data>>)
       ELSE IF PyInt(xofy_re.g1) < 0 \/ PyInt(xofy_re.g2) < 0
       THEN Raise("ValueError", <<>>)
       ELSE Dict(PyInt(xofy_re.g1), PyInt(xofy_re.g2), Join(<<" ">>, Tail(parts)), <<>>)

\* the empty dict {} of line 103
EmptyDict ==
    [tag |-> "empty", has_xy |-> FALSE, x_int |-> 0, y_int |-> 0, payload |-> <<>>,
     validated |-> <<>>]

\* mutant: the account-map parser is used for both kinds
read_single_qr_one_parser(decoded, qrtype_arg, v) ==
    IF qrtype_arg \notin {KINDS[1], KINDS[2]} THEN Raise("RuntimeError", <<>>)
    ELSE IF decoded = <<>> THEN EmptyDict
    ELSE _parse_specter_desktop_accountmap(Strip(decoded[1]), v)

\* mutant: the return is outside the for loop, the last barcode wins
read_single_qr_last(decoded, qrtype_arg, v) ==
    IF qrtype_arg \notin {KINDS[1], KINDS[2]} THEN Raise("RuntimeError", <<>>)
    ELSE IF decoded = <<>> THEN EmptyDict
    ELSE LET qrcode_data == Strip(decoded[Len(decoded)])
         IN IF qrtype_arg = "psbt" THEN _parse_specter_desktop_psbt(qrcode_data)
            ELSE _parse_specter_desktop_accountmap(qrcode_data, v)

\* decoded is the sequence barcode.data.decode("utf-8") of pyzbar.decode(frame)
read_single_qr(decoded, qrtype_arg, v) ==
    IF qrtype_arg \notin {KINDS[1], KINDS[2]} THEN Raise("RuntimeError", <<>>)
    ELSE IF decoded = <<>> THEN EmptyDict
    ELSE LET qrcode_data == Strip(decoded[1])
         IN IF qrtype_arg = "psbt" THEN _parse_specter_desktop_psbt(qrcode_data)
            ELSE _parse_specter_desktop_accountmap(qrcode_data, v)

----------------------------------------------------------------------------
(* Inputs: kinds, keys, validator behaviours and decoded frames *)

KindArgs ==
    {"accountmap", "psbt", "xpub"}

\* cv2.waitKey(1): -1 no key, 27 and 283 are ESC under the 0xFF mask
Keys ==
    {-1, 27, 283}

Verdicts ==
    {"ok", "ValueError"}

SP ==
    <<" ">>

\* decimal digits of n, as the encoder writes them
RECURSIVE Dec(_)
Dec(n) ==
    IF n < 10 THEN <<DIGITS[n + 1]>> ELSE Dec(n \div 10) \o <<DIGITS[(n % 10) + 1]>>

Hdr(i, n) ==
    <<"p">> \o Dec(i) \o <<"o", "f">> \o Dec(n)

Frag(i, n, body) ==
    Hdr(i, n) \o SP \o body

AAA ==
    <<"A", "A", "A">>

BBB ==
    <<"B", "B", "B">>

\* headers the encoder can produce, and headers it should not
Heads ==
    {<<1, 2>>, <<2, 2>>, <<1, 3>>, <<2, 3>>, <<3, 3>>,
     <<0, 2>>, <<3, 2>>, <<1, 0>>, <<1, 1>>, <<2, 1>>, <<2, 10>>}

HeaderTexts ==
    {Frag(h[1], h[2], AAA) : h \in Heads} \cup {Frag(i, 2, BBB) : i \in 1..2}

OddTokens ==
    {<<"p", "X", "o", "f", "Y">>, <<"p", "2", "o", "f">>, <<"2", "o", "f", "3">>,
     <<"p", "o", "f">>, <<"p", "1", "o", "f", "2", "x">>, <<>>}

OtherTexts ==
    OddTokens \cup {t \o SP \o AAA : t \in OddTokens}
        \cup {AAA, AAA \o SP, AAA \o SP \o BBB, Hdr(1, 2),
              Frag(1, 2, AAA) \o SP \o BBB, Frag(2, 2, AAA) \o SP \o SP \o BBB}

Texts ==
    HeaderTexts \cup OtherTexts

\* texts that share a frame with others
MultiTexts ==
    {Frag(1, 2, AAA), Frag(2, 2, BBB), <<"p", "X", "o", "f", "Y">>}

RECURSIVE SeqsUpTo(_, _)
SeqsUpTo(S, n) ==
    IF n = 0 THEN {<<>>}
    ELSE LET R == SeqsUpTo(S, n - 1)
         IN R \cup {Append(r, x) : r \in R, x \in S}

AnyFrames ==
    {<<t>> : t \in Texts} \cup SeqsUpTo(MultiTexts, MaxBarcodes)

\* text of part i of a capture
Letters ==
    <<"A", "B", "C", "D", "E", "F">>

PartText(i) ==
    <<Letters[i], Letters[i]>>

\* the frames of one n-part capture: its fragments, empty frames, an unreadable one
CaptureFrames(n) ==
    {<<>>, <<<<"p", "o", "f">> \o SP \o AAA>>} \cup {<<Frag(i, n, PartText(i))>> : i \in 1..n}

Frames(n) ==
    IF n = 0 THEN AnyFrames ELSE CaptureFrames(n)

\* every frame the camera may deliver
AllFrames ==
    AnyFrames \cup UNION {CaptureFrames(n) : n \in 2..MaxParts}

\* reader.py:136, the call read_single_qr(frame=frame, qrtype=qrtype), tabulated
single_qr_dict ==
    [decoded \in AllFrames, kind \in KindArgs, v \in Verdicts |->
        read_single_qr(decoded, kind, v)]

----------------------------------------------------------------------------
(* The scan loop of read_qr_code *)

\* mutant: no check at entry
kind_ok_any(k) ==
    TRUE

\* reader.py:107 the entry check
kind_ok(k) ==
    k \in {KINDS[1], KINDS[2]}

\* cv2.waitKey(1) & 0xFF
KeyMask(key) ==
    key % 256

\* position (1-based) that Python's qrs_array[i] designates, 0 for IndexError
PyIndex(arr, i) ==
    IF i >= 0 THEN (IF i < Len(arr) THEN i + 1 ELSE 0)
    ELSE (IF 0 - i <= Len(arr) THEN Len(arr) + i + 1 ELSE 0)

HasNone(arr) ==
    \E i \in 1..Len(arr) : arr[i] = None

\* len([x for x in qrs_array if x is not None])
num_scanned(arr) ==
    Cardinality({i \in 1..Len(arr) : arr[i] # None})

\* mutant: slots joined from the last to the first
RECURSIVE JoinAll_reversed(_)
JoinAll_reversed(arr) ==
    IF arr = <<>> THEN <<>> ELSE JoinAll_reversed(Tail(arr)) \o Head(arr)

\* "".join(qrs_array), defined when no element is None
RECURSIVE JoinAll(_)
JoinAll(arr) ==
    IF arr = <<>> THEN <<>> ELSE Head(arr) \o JoinAll(Tail(arr))

\* outcome of one step of read_qr_code
Outcome(p, arr, res, err, path, rel, msgs, val, seen) ==
    [pc |-> p, qrs_array |-> arr, result_payload |-> res, error |-> err,
     exit_path |-> path, released |-> rel, printed |-> msgs, validated |-> val,
     idx_seen |-> seen]

\* reader.py:176-186, reached by either break
AfterLoop(arr, path, msgs, val, seen) ==
    IF HasNone(arr)
    THEN Outcome("raised", arr, <<>>, "TypeError", path, 1,
                 Append(msgs, "Releasing camera"), val, seen)
    ELSE Outcome("returned", arr, JoinAll(arr), "none", path, 1,
                 Append(msgs, "Releasing camera"), val, seen)

\* mutant: the array is allocated anew at every fragment
Allocate_always(arr, y_int) ==
    [i \in 1..y_int |-> None]

\* mutant: the array grows when a fragment declares more parts
Allocate_resize(arr, y_int) ==
    IF Len(arr) < y_int THEN arr \o [i \in 1..(y_int - Len(arr)) |-> None] ELSE arr

\* reader.py:156-157
Allocate(arr, y_int) ==
    IF arr = <<>> THEN [i \in 1..y_int |-> None] ELSE arr

\* mutant: the slot is written even when it is filled
Store_overwrite(arr, pos, payload) ==
    [arr EXCEPT ![pos] = payload]

\* reader.py:164-170, pos is a valid position of arr
Store(arr, pos, payload) ==
    IF arr[pos] = None THEN [arr EXCEPT ![pos] = payload] ELSE arr

\* reader.py:153-174, d is a dict with y_int # 1
Absorb(arr, d, seen) ==
    LET arr1 == Allocate(arr, d.y_int)
        pos  == PyIndex(arr1, d.x_int - 1)
        scan == <<"QR scanned!", "Scanned k of n">>
    IN IF pos = 0
       THEN Outcome("raised", arr1, <<>>, "IndexError", "error", 0, scan,
                    d.validated, seen)
       ELSE LET arr2 == Store(arr1, pos, d.payload)
                msgs == Append(scan, IF arr1[pos] = None THEN "Adding to array"
                                     ELSE "Already scanned")
            IN IF ~HasNone(arr2)
               THEN AfterLoop(arr2, "complete", msgs, d.validated, seen \cup {d.x_int})
               ELSE Outcome("loop", arr2, <<>>, "none", "none", 0, msgs,
                            d.validated, seen \cup {d.x_int})

\* mutant: a dict without y_int is not taken for a whole payload
get_y_int_no_default(d) ==
    IF d.has_xy THEN d.y_int ELSE 0

\* reader.py:149, single_qr_dict.get("y_int", 1)
get_y_int(d) ==
    IF d.has_xy THEN d.y_int ELSE 1

\* mutant: the ValueError of the parser is not caught
ProcessFrame_no_except(arr, kind, decoded, v, seen) ==
    LET d == single_qr_dict[decoded, kind, v]
    IN IF d.tag = "RuntimeError"
       THEN Outcome("raised", arr, <<>>, "RuntimeError", "error", 0, <<>>,
                    d.validated, seen)
       ELSE IF d.tag = "ValueError"
       THEN Outcome("raised", arr, <<>>, "ValueError", "error", 0, <<>>,
                    d.validated, seen)
       ELSE IF d.tag = "empty"
       THEN Outcome("loop", arr, <<>>, "none", "none", 0, <<>>, d.validated, seen)
       ELSE IF get_y_int(d) = 1
       THEN Outcome("returned", arr, d.payload, "none", "single", 0,
                    <<"QR scanned!">>, d.validated, seen)
       ELSE Absorb(arr, d, seen)

\* reader.py:133-174, the part of an iteration after the ESC check
ProcessFrame(arr, kind, decoded, v, seen) ==
    LET d == single_qr_dict[decoded, kind, v]
    IN IF d.tag = "RuntimeError"
       THEN Outcome("raised", arr, <<>>, "RuntimeError", "error", 0, <<>>,
                    d.validated, seen)
       ELSE IF d.tag = "ValueError"
       THEN Outcome("loop", arr, <<>>, "none", "none", 0, <<"QR Scan Error">>,
                    d.validated, seen)
       ELSE IF d.tag = "empty"
       THEN Outcome("loop", arr, <<>>, "none", "none", 0, <<>>, d.validated, seen)
       ELSE IF get_y_int(d) = 1
       THEN Outcome("returned", arr, d.payload, "none", "single", 0,
                    <<"QR scanned!">>, d.validated, seen)
       ELSE Absorb(arr, d, seen)

----------------------------------------------------------------------------
(* State machine *)

NoCall ==
    [kind |-> "none", qrcode_data |-> <<>>, verdict |-> "ok", result |-> EmptyDict]

\* state at the call of read_qr_code(qrtype)
AtCall ==
    /\ pc = "init"
    /\ qrtype \in KindArgs
    /\ qrs_array = <<>>
    /\ result_payload = <<>>
    /\ error = "none"
    /\ exit_path = "none"
    /\ opened = 0
    /\ released = 0
    /\ effects = {}
    /\ barcodes = <<>>
    /\ verdict = "ok"
    /\ validated = <<>>
    /\ printed = <<>>
    /\ idx_seen = {}
    /\ parser_call = NoCall

Init ==
    AtCall /\ stream = 0

\* the camera is pointed at the animated QR of one n-part capture
InitCapture ==
    AtCall /\ stream \in 2..MaxParts

\* reader.py:106-124: entry check, camera opened, first frame read
read_qr_code ==
    /\ pc = "init"
    /\ IF ~kind_ok(qrtype)
       THEN /\ pc' = "raised"
            /\ error' = "RuntimeError"
            /\ exit_path' = "invalid_kind"
            /\ UNCHANGED <<opened, effects, printed>>
       ELSE /\ pc' = "loop"
            /\ opened' = opened + 1
            /\ effects' = effects \cup {"camera.read"}
            /\ printed' = <<"Starting QR code scanner">>
            /\ UNCHANGED <<error, exit_path>>
    /\ qrs_array' = <<>>
    /\ result_payload' = <<>>
    /\ UNCHANGED <<qrtype, released, barcodes, verdict, validated, idx_seen, stream,
                   parser_call>>

Apply(o) ==
    /\ pc' = o.pc
    /\ qrs_array' = o.qrs_array
    /\ result_payload' = o.result_payload
    /\ error' = o.error
    /\ exit_path' = o.exit_path
    /\ released' = released + o.released
    /\ printed' = o.printed
    /\ validated' = o.validated
    /\ idx_seen' = o.idx_seen

\* reader.py:125-131 and 176-186: ESC seen at the check of an iteration
loop_cancel(key) ==
    /\ pc = "loop"
    /\ KeyMask(key) = ESC
    /\ Apply(AfterLoop(qrs_array, "cancel", <<>>, <<>>, idx_seen))
    /\ effects' = effects \cup {"cv2.flip", "cv2.imshow", "cv2.waitKey"}
    /\ UNCHANGED <<qrtype, opened, barcodes, verdict, stream, parser_call>>

\* reader.py:125-186: an iteration that passes the check and reads a frame
loop_frame(key, decoded, v) ==
    /\ pc = "loop"
    /\ KeyMask(key) # ESC
    /\ Apply(ProcessFrame(qrs_array, qrtype, decoded, v, idx_seen))
    /\ effects' = effects \cup {"cv2.flip", "cv2.imshow", "cv2.waitKey",
                                "camera.read", "pyzbar.decode"}
    /\ barcodes' = decoded
    /\ verdict' = v
    /\ UNCHANGED <<qrtype, opened, stream, parser_call>>

Next ==
    \/ read_qr_code
    \/ \E key \in Keys : loop_cancel(key)
    \/ \E key \in Keys, decoded \in Frames(stream), v \in Verdicts :
           loop_frame(key, decoded, v)

Spec ==
    Init /\ [][Next]_vars

\* part i of the capture is in front of the camera at some iteration
PresentPart(i) ==
    /\ i <= stream
    /\ \E key \in Keys, decoded \in {<<Frag(i, stream, PartText(i))>>}, v \in Verdicts :
           loop_frame(key, decoded, v)

\* the call starts, and the animation keeps cycling through all its parts
CaptureSpec ==
    /\ InitCapture
    /\ [][Next]_vars
    /\ WF_vars(read_qr_code)
    /\ \A i \in 1..MaxParts : WF_vars(PresentPart(i))

----------------------------------------------------------------------------
(* The parsers on their own: reader.py:91-96 with qrcode_data given *)

\* first tokens: every p<i>of<n> up to MaxNum, and tokens that are no header
ParserTokens ==
    {Hdr(i, n) : i \in 0..MaxNum, n \in 0..MaxNum} \cup OddTokens

ParserTexts ==
    ParserTokens \cup {t \o SP \o AAA : t \in ParserTokens}
        \cup {t \o SP \o AAA \o SP \o BBB : t \in OddTokens \cup {Hdr(1, 2), Hdr(2, 10)}}
        \cup {Hdr(2, 2) \o SP \o AAA \o SP \o SP \o BBB, AAA, AAA \o SP \o BBB}

InitParser ==
    /\ pc = "parser"
    /\ qrtype = "none"
    /\ qrs_array = <<>>
    /\ result_payload = <<>>
    /\ error = "none"
    /\ exit_path = "none"
    /\ opened = 0
    /\ released = 0
    /\ effects = {}
    /\ barcodes = <<>>
    /\ verdict = "ok"
    /\ validated = <<>>
    /\ printed = <<>>
    /\ idx_seen = {}
    /\ stream = 0
    /\ parser_call = NoCall

\* reader.py:91-96: the parser of the kind applied to qrcode_data
call_parser(kind, qrcode_data, v) ==
    /\ pc = "parser"
    /\ pc' = "parsed"
    /\ parser_call' =
           [kind |-> kind, qrcode_data |-> qrcode_data, verdict |-> v,
            result |-> IF kind = "psbt" THEN _parse_specter_desktop_psbt(qrcode_data)
                       ELSE _parse_specter_desktop_accountmap(qrcode_data, v)]
    /\ UNCHANGED <<qrtype, qrs_array, result_payload, error, exit_path, opened,
                   released, effects, barcodes, verdict, validated, printed,
                   idx_seen, stream>>

NextParser ==
    \E kind \in {KINDS[1], KINDS[2]}, qrcode_data \in ParserTexts, v \in Verdicts :
        call_parser(kind, qrcode_data, v)

ParserSpec ==
    InitParser /\ [][NextParser]_vars

----------------------------------------------------------------------------
(* Vocabulary of the properties *)

Exited ==
    pc \in {"returned", "raised"}

\* the step is an iteration that got past the ESC check and decoded a frame
FrameStep ==
    pc = "loop" /\ exit_path' # "cancel"

\* what read_single_qr made of the frame of the step
Parsed ==
    single_qr_dict[barcodes', qrtype, verdict']

PartCount(d) ==
    IF d.has_xy THEN d.y_int ELSE 1

AllDigits(s) ==
    s # <<>> /\ \A i \in 1..Len(s) : IsDigit(s[i])

\* tok is exactly p<digits>of<digits>, both digit groups non-empty
IsHeader(tok) ==
    \E a \in 1..Len(tok) :
        /\ a + 3 <= Len(tok)
        /\ tok[1] = "p"
        /\ AllDigits(SubSeq(tok, 2, a))
        /\ tok[a + 1] = "o"
        /\ tok[a + 2] = "f"
        /\ AllDigits(SubSeq(tok, a + 3, Len(tok)))

FirstToken(text) ==
    IF \E i \in 1..Len(text) : text[i] = " "
    THEN SubSeq(text, 1, (CHOOSE i \in 1..Len(text) :
                              text[i] = " " /\ \A j \in 1..(i - 1) : text[j] # " ") - 1)
    ELSE text

\* text_1 text_2 ... text_n of a capture
RECURSIVE ExpectedPayload(_)
ExpectedPayload(n) ==
    IF n = 0 THEN <<>> ELSE ExpectedPayload(n - 1) \o PartText(n)

----------------------------------------------------------------------------
(* C1..C10 *)

\* C1: whenever read_qr_code has opened the camera and has exited, by return
\* or by an error, camera.release has been called exactly once.
C1_ReleasedExactlyOnce ==
    (Exited /\ opened > 0) => released = 1

\* C2: when ESC is seen at the check, read_qr_code returns a string and raises
\* nothing, whatever the slots hold; the string is empty when no slot is filled.
C2_CancelReturnsString ==
    exit_path = "cancel" =>
        /\ pc = "returned"
        /\ error = "none"
        /\ (num_scanned(qrs_array) = 0 => result_payload = <<>>)

\* C3: fed the fragments of one n-part capture in any order, with empty frames
\* and repeats in between, read_qr_code returns text_1 ... text_n in index order.
C3_OrderIndependent ==
    /\ exit_path = "complete" => (pc = "returned" /\ result_payload = ExpectedPayload(stream))
    /\ pc = "returned" => exit_path \in {"complete", "cancel"}

C3_Witness ==
    /\ exit_path = "complete"
    /\ stream = MaxParts
    /\ barcodes = <<Frag(1, stream, PartText(1))>>
    /\ result_payload = ExpectedPayload(MaxParts)

\* C4: a fragment whose slot is already filled changes no slot, keeps the
\* number of filled slots and does not end the loop.
C4_DuplicateIgnored ==
    [][(/\ FrameStep
        /\ Parsed.tag = "ok"
        /\ PartCount(Parsed) # 1
        /\ PyIndex(qrs_array, Parsed.x_int - 1) # 0
        /\ qrs_array[PyIndex(qrs_array, Parsed.x_int - 1)] # None)
       => (/\ qrs_array' = qrs_array
           /\ num_scanned(qrs_array') = num_scanned(qrs_array)
           /\ pc' = "loop")]_vars

C4_Witness ==
    /\ pc = "loop"
    /\ qrs_array = <<AAA, None>>
    /\ barcodes = <<Frag(1, 2, BBB)>>
    /\ printed[Len(printed)] = "Already scanned"

\* C5: read_qr_code completes a multi-part payload only if, for every index i
\* of the slot array, a fragment with part_index = i has been absorbed.
C5_CompleteNeedsEveryIndex ==
    exit_path = "complete" => \A i \in 1..Len(qrs_array) : i \in idx_seen

\* C6: a frame without barcode, or whose first text is rejected by the parser
\* or the validator, leaves the slots unchanged and the loop running.
C6_BadFrameSkipped ==
    [][(FrameStep /\ (barcodes' = <<>> \/ Parsed.tag = "ValueError"))
       => (/\ qrs_array' = qrs_array
           /\ pc' = "loop"
           /\ error' = "none")]_vars

C6_Witness ==
    /\ pc = "loop"
    /\ qrs_array = <<AAA, None>>
    /\ barcodes = <<<<"p", "X", "o", "f", "Y">> \o SP \o AAA>>
    /\ printed = <<"QR Scan Error">>

\* C7: a fragment with part_count = 1 makes read_qr_code return its text at
\* once, slots untouched; without a header the result is the decoded text.
C7_SinglePartReturned ==
    [][(FrameStep /\ Parsed.tag = "ok" /\ PartCount(Parsed) = 1)
       => (/\ pc' = "returned"
           /\ exit_path' = "single"
           /\ result_payload' = Parsed.payload
           /\ qrs_array' = qrs_array
           /\ (~IsHeader(FirstToken(Strip(barcodes'[1])))
                  => result_payload' = Strip(barcodes'[1])))]_vars

C7_Witness ==
    /\ pc = "returned"
    /\ exit_path = "single"
    /\ qrs_array = <<AAA, None>>
    /\ barcodes = <<AAA \o SP \o BBB>>
    /\ result_payload = AAA \o SP \o BBB

\* C8: an unknown kind fails at entry with the camera closed and no frame
\* read, shown or decoded; the kind check inside the loop never fails.
C8_InvalidKindAtEntry ==
    /\ qrtype \notin {"accountmap", "psbt"} =>
           /\ pc \in {"init", "raised"}
           /\ opened = 0
           /\ effects = {}
           /\ (pc = "raised" => error = "RuntimeError")
    /\ error = "RuntimeError" => exit_path = "invalid_kind"

C8_Witness ==
    /\ pc = "raised"
    /\ qrtype = "xpub"
    /\ error = "RuntimeError"
    /\ opened = 0

\* C9: parse_wshsortedmulti is called only for kind accountmap, only with the
\* decoded text of the frame and only when that text has no header; never for
\* psbt and never on the joined result.
C9_ValidatorOnlyOnWholeAccountMap ==
    /\ validated # <<>> =>
           /\ qrtype = "accountmap"
           /\ barcodes # <<>>
           /\ validated = <<Strip(barcodes[1])>>
           /\ ~IsHeader(FirstToken(validated[1]))
    /\ exit_path \in {"complete", "cancel"} => validated = <<>>

C9_Witness ==
    /\ qrtype = "accountmap"
    /\ validated = <<AAA \o SP \o BBB>>
    /\ qrs_array = <<AAA, None>>

\* C10: when every part of the capture keeps being presented, read_qr_code
\* ends, by ESC or by returning text_1 ... text_n; and an iteration that sees
\* ESC leaves the loop without absorbing anything.
C10_Terminates ==
    /\ <>(\/ exit_path \in {"cancel", "invalid_kind"}
          \/ (pc = "returned" /\ result_payload = ExpectedPayload(stream)))
    /\ [][(pc = "loop" /\ exit_path' = "cancel")
          => (pc' # "loop" /\ qrs_array' = qrs_array /\ idx_seen' = idx_seen)]_vars

C10_Witness ==
    /\ pc = "returned"
    /\ exit_path = "complete"
    /\ qrtype = "psbt"
    /\ stream = 2
    /\ barcodes = <<Frag(2, 2, PartText(2))>>
    /\ result_payload = ExpectedPayload(2)

----------------------------------------------------------------------------
(* C11..C18 *)

\* the fragment of the step reaches the slot code of lines 153-174
AbsorbStep ==
    FrameStep /\ Parsed.tag = "ok" /\ PartCount(Parsed) # 1

\* positions whose content differs between two slot arrays
Changed(old, new) ==
    {i \in 1..Len(new) : i > Len(old) \/ old[i] # new[i]}

\* positions that hold a text in new and held none in old
Written(old, new) ==
    {i \in 1..Len(new) : new[i] # None /\ (i > Len(old) \/ old[i] = None)}

\* C11: once slots are allocated for n parts, a fragment declaring another
\* part count (not 1) is ignored: no slot changes, the loop goes on, no error.
C11_MismatchIgnored ==
    [][(AbsorbStep /\ qrs_array # <<>> /\ Parsed.y_int # Len(qrs_array))
       => (/\ qrs_array' = qrs_array
           /\ pc' = "loop"
           /\ error' = "none")]_vars

\* C12: a fragment that fills a slot has 1 <= part_index <= part_count =
\* number of slots and fills position part_index - 1; a header with index 0,
\* index above the slot count or count 0 writes no slot and raises no error.
C12_OnlyValidIndexWrites ==
    [][AbsorbStep
       => (/\ Written(qrs_array, qrs_array') # {}
                 => (/\ 1 <= Parsed.x_int
                     /\ Parsed.x_int <= Parsed.y_int
                     /\ Parsed.y_int = Len(qrs_array')
                     /\ Written(qrs_array, qrs_array') = {Parsed.x_int})
           /\ (Parsed.x_int = 0 \/ Parsed.y_int = 0
                   \/ Parsed.x_int > Len(Allocate(qrs_array, Parsed.y_int)))
                 => (Written(qrs_array, qrs_array') = {} /\ error' = "none"))]_vars

\* the four inputs of C13, alone and as the first of two tokens
C13Inputs ==
    {<<"p", "X", "o", "f", "Y">>, <<"p", "2", "o", "f">>, <<"2", "o", "f", "3">>, <<>>}

C13TwoTokens ==
    {t \o SP \o AAA : t \in C13Inputs}

HasSpace(text) ==
    \E i \in 1..Len(text) : text[i] = " "

\* C13 as stated: pXofY, p2of, 2of3 and the empty string, as the decoded text
\* or as the header token of a two-token text, make both parsers raise
\* ValueError (the validator rejecting these texts, as none is a descriptor).
C13_AllMalformed ==
    (/\ parser_call.kind # "none"
     /\ parser_call.qrcode_data \in C13Inputs \cup C13TwoTokens
     /\ parser_call.kind = "accountmap" => parser_call.verdict = "ValueError")
        => parser_call.result.tag = "ValueError"

\* C13 amended: as the header token of a two-token text the four inputs make
\* the psbt parser raise ValueError, as the whole text it returns them as
\* (1, 1, text); the accountmap parser raises ValueError on p2of, and hands
\* the whole text to the validator for the other three, failing when it fails.
C13_MalformedHeaders ==
    LET c == parser_call
        t == c.qrcode_data
        r == c.result
    IN /\ (c.kind = "psbt" /\ t \in C13TwoTokens) => r.tag = "ValueError"
       /\ (c.kind = "psbt" /\ t \in C13Inputs)
             => (r.tag = "ok" /\ r.x_int = 1 /\ r.y_int = 1 /\ r.payload = t)
       /\ (c.kind = "accountmap" /\ t \in C13Inputs \cup C13TwoTokens)
             => IF FirstToken(t) = <<"p", "2", "o", "f">>
                THEN r.tag = "ValueError" /\ r.validated = <<>>
                ELSE /\ r.validated = <<t>>
                     /\ (r.tag = "ValueError") = (c.verdict = "ValueError")
                     /\ (r.tag = "ok") => (~r.has_xy /\ r.payload = t)

C13_Witness ==
    /\ parser_call.kind = "psbt"
    /\ parser_call.qrcode_data = <<"p", "2", "o", "f">> \o SP \o AAA
    /\ parser_call.result.tag = "ValueError"

\* the parser took x_int and y_int from a header
ParsedFromHeader ==
    /\ parser_call.result.tag = "ok"
    /\ parser_call.result.has_xy
    /\ (parser_call.kind = "accountmap" \/ HasSpace(parser_call.qrcode_data))

\* C14: a fragment is taken from a header only if the whole first token is
\* p<digits>of<digits> with both numbers >= 1, read as decimal numbers; a
\* token that only starts with a header or lacks a digit group is rejected.
C14_WholeTokenHeader ==
    LET c == parser_call
        tok == FirstToken(c.qrcode_data)
        r == c.result
    IN /\ ParsedFromHeader
             => (/\ IsHeader(tok)
                 /\ r.x_int >= 1
                 /\ r.y_int >= 1
                 /\ tok = Hdr(r.x_int, r.y_int))
       /\ (/\ c.kind # "none"
           /\ HasSpace(c.qrcode_data)
           /\ tok \in {<<"p", "1", "o", "f", "2", "x">>, <<"p", "o", "f">>,
                       <<"p", "2", "o", "f">>})
             => r.tag = "ValueError"

\* the decoded text of the frame of the step, as the parsers get it
FrameText ==
    Strip(barcodes'[1])

TokenCount(text) ==
    Cardinality({i \in 1..Len(text) : text[i] = " "}) + 1

\* what follows the first token and its space
AfterFirstToken(text) ==
    SubSeq(text, Len(FirstToken(text)) + 2, Len(text))

\* C15: a text with a header and three or more tokens is rejected for psbt,
\* slots unchanged; for accountmap its fragment text is everything after the
\* header, spaces kept, and that is what is stored and joined.
C15_ExtraTokens ==
    [][(/\ FrameStep
        /\ barcodes' # <<>>
        /\ IsHeader(FirstToken(FrameText))
        /\ TokenCount(FrameText) >= 3)
       => (/\ qrtype = "psbt"
                 => (Parsed.tag = "ValueError" /\ qrs_array' = qrs_array /\ pc' = "loop")
           /\ qrtype = "accountmap"
                 => (/\ Parsed.tag = "ok"
                     /\ Parsed.payload = AfterFirstToken(FrameText)
                     /\ \A i \in Written(qrs_array, qrs_array') :
                            qrs_array'[i] = AfterFirstToken(FrameText)
                     /\ exit_path' = "complete"
                            => result_payload' = JoinAll(qrs_array')))]_vars

C15_Witness ==
    /\ qrtype = "accountmap"
    /\ exit_path = "complete"
    /\ barcodes = <<Frag(2, 2, AAA) \o SP \o SP \o BBB>>
    /\ result_payload = AAA \o SP \o BBB \o AAA \o SP \o SP \o BBB

\* C16: only the first barcode of a frame counts: the iteration does what it
\* would do with that barcode alone, writes at most one slot, and a malformed
\* first barcode skips the frame.
C16_FirstBarcodeOnly ==
    [][(FrameStep /\ barcodes' # <<>>)
       => LET alone == ProcessFrame(qrs_array, qrtype, <<barcodes'[1]>>, verdict', idx_seen)
          IN /\ qrs_array' = alone.qrs_array
             /\ pc' = alone.pc
             /\ result_payload' = alone.result_payload
             /\ validated' = alone.validated
             /\ idx_seen' = alone.idx_seen
             /\ Cardinality(Written(qrs_array, qrs_array')) <= 1
             /\ single_qr_dict[<<barcodes'[1]>>, qrtype, verdict'].tag = "ValueError"
                    => (/\ qrs_array' = qrs_array
                        /\ pc' = "loop"
                        /\ printed' = <<"QR Scan Error">>)]_vars

C16_Witness ==
    /\ pc = "loop"
    /\ qrtype = "accountmap"
    /\ barcodes = <<<<"p", "X", "o", "f", "Y">>, Frag(1, 2, AAA)>>
    /\ printed = <<"QR Scan Error">>
    /\ qrs_array = <<>>

\* C17: the slot array is allocated once, by the first fragment absorbed, with
\* the length that fragment declares and nothing in it but that fragment's
\* text; its length never changes afterwards.
C17_AllocatedOnce ==
    [][/\ qrs_array # <<>> => Len(qrs_array') = Len(qrs_array)
       /\ (qrs_array = <<>> /\ qrs_array' # <<>>)
             => (/\ AbsorbStep
                 /\ Len(qrs_array') = Parsed.y_int
                 /\ \A i \in 1..Len(qrs_array') :
                        qrs_array'[i] = None
                            \/ (i = PyIndex(qrs_array', Parsed.x_int - 1)
                                    /\ qrs_array'[i] = Parsed.payload))]_vars

C17_Witness ==
    /\ pc = "loop"
    /\ qrs_array = <<BBB, AAA, None>>
    /\ barcodes = <<Frag(1, 2, BBB)>>

\* C18: from one iteration to the next the number of filled slots stays or
\* grows by one, and a filled slot keeps its text.
C18_FilledMonotone ==
    [][/\ num_scanned(qrs_array') >= num_scanned(qrs_array)
       /\ num_scanned(qrs_array') <= num_scanned(qrs_array) + 1
       /\ \A i \in 1..Len(qrs_array) :
              qrs_array[i] # None
                  => (i <= Len(qrs_array') /\ qrs_array'[i] = qrs_array[i])]_vars

C18_Witness ==
    /\ pc = "loop"
    /\ Len(qrs_array) = 3
    /\ num_scanned(qrs_array) = 2
    /\ printed[Len(printed)] = "Adding to array"

====
